---- MODULE Spec2Model ----
(***************************************************************************)
(* Model of the two QR-code generation pipelines of this repository,       *)
(* src/main.py (with the database sink, without the closing remainder      *)
(* flush) and src/qr_images.py (without database, with the remainder       *)
(* flush).  Both read a CSV file, cut its rows into batches of BATCH_SIZE, *)
(* run process_row for every row of a batch on a thread pool, append the   *)
(* non-None results to the global list `results` and call zip_and_cleanup  *)
(* when len(results) is a multiple of the archival threshold.              *)
(*                                                                         *)
(* Strings are sequences of one-character strings.  A CSV row is a         *)
(* sequence of fields (a Python list), possibly shorter than the header.   *)
(* Column indexes are 1-based here; 0 stands for Python's -1 (absent).     *)
(*                                                                         *)
(* Scaling.  The program's BATCH_SIZE is 100, its pool has 30 workers and  *)
(* its archival threshold is the literal 1000 = 10 * BATCH_SIZE.  The      *)
(* model keeps the relation "threshold is a whole number of batches" and   *)
(* scales the three numbers down (BATCH_SIZE, MAX_WORKERS,                 *)
(* BatchesPerArchive below); MaxRows and MaxVersion bound the input.       *)
(* MaxLiveRows bounds the files on which progress (SpecLive) is checked.   *)
(*                                                                         *)
(* Environment.  The program is run from its own directory, so the         *)
(* relative path create_qr_image writes and the BASE_DIR path               *)
(* zip_and_cleanup reads name the same file.  Library calls other than     *)
(* the QR synthesis, the batch insert and the request insert do not raise. *)
(***************************************************************************)
EXTENDS Integers, Sequences, FiniteSets, TLC

\* ------------------------------------------------------------ bounds ----
MaxRows == 4            \* rows of the CSV file (without the header)
MaxVersion == 8         \* largest symbol version the encoder grows to
MaxLiveRows == 2        \* rows of the files on which progress is checked

\* ------------------------------------------- program constants, scaled --
BATCH_SIZE == 2         \* BATCH_SIZE = 100 in the program
MAX_WORKERS == 2        \* max_workers=30 in the program
BatchesPerArchive == 1  \* 1000 / BATCH_SIZE = 10 in the program

\* archival threshold: the literal 1000 of process_batch
Threshold == BatchesPerArchive * BATCH_SIZE

\* --------------------------------------------------- program constants --
CODE_WIDTH == 6         \* zfill(6) of main.py process_row
WALL_WIDTH == 11        \* zfill(11) of qr_images.py process_row
GEN_LENGTH == 10        \* generate_code_id(length=10)
QR_VERSION == 4
QR_BORDER == 0
FIXED_SIZE == <<1700, 1700>>
FOREGROUND_COLOR == <<10, 35, 96, 255>>
EYEBALL_COLOR == <<90, 166, 219, 255>>
BACKGROUND_COLOR == <<255, 255, 255, 255>>

VARIABLES
    pipeline,       \* "main" or "qr_images": which program runs
    header,         \* normalised header row of the CSV file
    pc,             \* position of the main thread
    rowsLeft,       \* rows of `rows` the for loop has not reached yet
    nread,          \* rows the for loop has taken so far
    batch_rows,     \* the batch being filled / processed
    batch_num,
    w,              \* per row of the dispatched batch: the worker's frame
    lock,           \* 0 = free, i = held by the worker of row i
    seen_code_ids,
    results,
    disk,           \* file names (code ids) present in OUTPUT_FOLDER
    zips,           \* archive index -> set of entries of qr_batch_<index>.zip
    error_log,      \* lines appended to qr-error.log
    db,             \* rows committed to qrcode_record (main.py only)
    db_errors,      \* "Batch DB insert failed" messages logged
    request,        \* TRUE once the qrcode_request row is committed
    before,         \* history: len(results) when the batch was dispatched
    inserts,        \* history: insert_batch_records calls made
    zipCalls,       \* history: the zip_and_cleanup calls, in order
    executed,       \* history: per row read, the process_row calls begun
    batches,        \* history: the row numbers of each dispatched batch
    lost,           \* history: code ids claimed by a call whose synthesis failed
    style_pc,       \* position inside stylize_finder_patterns
    matrix_size,    \* len(qr.get_matrix()): modules per side
    fill_k,         \* fill_rect calls made so far
    fills           \* the rectangles drawn on img, in order

pipeVars == <<pipeline, header, pc, rowsLeft, nread, batch_rows, batch_num, w,
              lock, seen_code_ids, results, disk, zips, error_log, db,
              db_errors, request, before, inserts, zipCalls, executed,
              batches, lost>>

styleVars == <<style_pc, matrix_size, fill_k, fills>>

vars == <<pipeVars, styleVars>>

\* ------------------------------------------------------------ strings ---
SP == " "

IsSpace(c) == c = SP

RECURSIVE LStrip(_)
LStrip(s) == IF s # <<>> /\ IsSpace(Head(s)) THEN LStrip(Tail(s)) ELSE s

RECURSIVE RStrip(_)
RStrip(s) ==
    IF s # <<>> /\ IsSpace(s[Len(s)]) THEN RStrip(SubSeq(s, 1, Len(s) - 1))
    ELSE s

\* str.strip()
Strip(s) == RStrip(LStrip(s))

\* str.zfill(width) for strings without a sign prefix
ZFill(s, width) ==
    IF Len(s) >= width THEN s
    ELSE [i \in 1..(width - Len(s)) |-> "0"] \o s

Digits == <<"1", "2", "3", "4", "5", "6", "7", "8", "9">>

\* generate_code_id: a random string of GEN_LENGTH digits; the model draws
\* it from the strings 0...0d.
GenId(d) == [i \in 1..(GEN_LENGTH - 1) |-> "0"] \o <<Digits[d]>>

\* ------------------------------------------------------------- input ----
CodeCol == IF pipeline = "main" THEN "posid" ELSE "code_id"
WallCol == IF pipeline = "main" THEN "wallid" ELSE "ext_id"

Headers(p) ==
    IF p = "main"
    THEN {<<"wallid", "posid">>, <<"wallid">>, <<"posid">>}
    ELSE {<<"code_id", "ext_id">>, <<"code_id">>, <<"ext_id">>}

\* headers.index(name) if name in headers else -1   (1-based, 0 = absent)
IndexOf(h, name) ==
    IF \E i \in 1..Len(h) : h[i] = name
    THEN CHOOSE i \in 1..Len(h) : h[i] = name /\ \A j \in 1..(i - 1) : h[j] # name
    ELSE 0

posid_idx == IndexOf(header, CodeCol)
wallid_idx == IndexOf(header, WallCol)

\* Field values a CSV cell may hold.  The n-th row of the file carries one
\* of the first n code values (a first occurrence is named in order), the
\* zero-padded spelling "01" of the first one, or an empty cell.
ExtFields == {<<SP>>, <<"A">>}
CodeFields(n) == {<<>>, <<"0", "1">>} \cup {<<Digits[k]>> : k \in 1..n}

FieldsAt(col, n) ==
    IF col = posid_idx THEN CodeFields(n)
    ELSE IF col = wallid_idx THEN ExtFields
    ELSE {<<>>}

\* the rows csv.reader may yield as n-th row: any length up to the header's
RowChoices(n) ==
    {<<>>}
    \cup {<<f>> : f \in FieldsAt(1, n)}
    \cup IF Len(header) >= 2
         THEN {<<f, g>> : f \in FieldsAt(1, n), g \in FieldsAt(2, n)}
         ELSE {}

\* ------------------------------------------------------------ helpers ---
Idx == 1..Len(batch_rows)

\* number of the first row of the dispatched batch within the file
RowNo(i) == nread - Len(batch_rows) + i

\* variant: the slice one record short, xs[-(n - 1):]
LastNShort(xs, n) ==
    IF Len(xs) <= n - 1 THEN xs ELSE SubSeq(xs, Len(xs) - n + 2, Len(xs))

\* xs[-n:] of Python for n >= 1
LastN(xs, n) ==
    IF Len(xs) <= n THEN xs ELSE SubSeq(xs, Len(xs) - n + 1, Len(xs))

CodesOf(recs) == {recs[k].code_id : k \in 1..Len(recs)}

NoFrame == [pc |-> "queued", code_id |-> <<>>, ext_id |-> <<>>]

Running(i) == w[i].pc \in {"lock", "add", "synth"}
\* how a call ended: "rec" returned a record, "none" returned None at the
\* membership test, "failed" returned None from the except block, "raised"
\* let an exception escape, "cancelled" never ran
\* variant: a call counts as returned as soon as a thread has taken it
ReturnedOnceTaken(i) == w[i].pc # "queued"
Returned(i) == w[i].pc \in {"rec", "none", "failed"}
Finished(i) == Returned(i) \/ w[i].pc \in {"raised", "cancelled"}


\* ------------------------------------------------------- process_row ----
\* The try block raises IndexError when the row is too short for a column
\* it reads.  main.py reads row[wallid_idx] and, when a posid column
\* exists, row[posid_idx]; qr_images.py reads row[codeid_idx] and
\* row[wallid_idx].
ExtractRaises(row) ==
    \/ Len(row) < wallid_idx
    \/ posid_idx # 0 /\ Len(row) < posid_idx

\* The except block formats its log line.  main.py evaluates row[wallid_idx]
\* and row[posid_idx] again, which raise again on the short row; qr_images.py
\* evaluates the local code_id, which is unbound when row[codeid_idx] raised.
HandlerRaises(row) ==
    IF pipeline = "main"
    THEN \/ Len(row) < wallid_idx
         \/ posid_idx # 0 /\ Len(row) < posid_idx
    ELSE Len(row) < posid_idx

\* ext_id of main.py, wall_id of qr_images.py
ExtId(row) ==
    IF pipeline = "main" THEN Strip(row[wallid_idx])
    ELSE ZFill(Strip(row[wallid_idx]), WALL_WIDTH)

\* the values code_id may take for the n-th row of the file
CodeIds(row, n) ==
    IF pipeline = "main"
    THEN IF posid_idx # 0 /\ Strip(row[posid_idx]) # <<>>
         THEN {ZFill(Strip(row[posid_idx]), CODE_WIDTH)}
         ELSE {GenId(d) : d \in 1..n}
    ELSE {Strip(row[posid_idx])}

\* variant: the emptiness test alone, without the membership test
RejectsEmptyOnly(ext_id, code_id, seen) ==
    IF pipeline = "main" THEN ext_id = <<>> ELSE code_id = <<>>

\* the test before the lock: "if not ext_id or code_id in seen_code_ids"
\* (main.py), "if not code_id or code_id in seen_code_ids" (qr_images.py)
Rejects(ext_id, code_id, seen) ==
    IF pipeline = "main"
    THEN ext_id = <<>> \/ code_id \in seen
    ELSE code_id = <<>> \/ code_id \in seen

\* the except block of process_row, run by the worker of row i
Except(i) ==
    IF HandlerRaises(batch_rows[i])
    THEN /\ w' = [w EXCEPT ![i].pc = "raised"]
         /\ UNCHANGED error_log
    ELSE /\ w' = [w EXCEPT ![i].pc = "failed"]
         /\ error_log' = error_log + 1

\* A pool thread takes the next queued call and runs process_row up to the
\* membership test (the test reads seen_code_ids without the lock).
Begin(i) ==
    /\ pc = "map"
    /\ w[i].pc = "queued"
    /\ \A j \in 1..(i - 1) : w[j].pc # "queued"
    /\ Cardinality({j \in Idx : Running(j)}) < MAX_WORKERS
    /\ executed' = [executed EXCEPT ![RowNo(i)] = @ + 1]
    /\ LET row == batch_rows[i] IN
       IF ExtractRaises(row)
       THEN Except(i)
       ELSE /\ \E code_id \in CodeIds(row, RowNo(i)) :
                 w' = [w EXCEPT ![i] =
                         [pc |-> IF Rejects(ExtId(row), code_id, seen_code_ids)
                                 THEN "none" ELSE "lock",
                          code_id |-> code_id,
                          ext_id |-> ExtId(row)]]
            /\ UNCHANGED error_log
    /\ UNCHANGED <<styleVars, batches, lost, pipeline, header, pc, rowsLeft,
                   nread, batch_rows, batch_num, lock, seen_code_ids, results,
                   disk, zips, db, db_errors, request, before, inserts,
                   zipCalls>>

\* "with lock:" entry
Acquire(i) ==
    /\ pc \in {"map", "unwind"}
    /\ w[i].pc = "lock"
    /\ lock = 0
    /\ lock' = i
    /\ w' = [w EXCEPT ![i].pc = "add"]
    /\ UNCHANGED <<styleVars, executed, batches, lost, pipeline, header, pc,
                   rowsLeft, nread, batch_rows, batch_num, seen_code_ids,
                   results, disk, zips, error_log, db, db_errors, request,
                   before, inserts, zipCalls>>

\* variant: the lock is not released after the insertion
AddKeepLock(i) ==
    /\ pc \in {"map", "unwind"}
    /\ w[i].pc = "add"
    /\ lock = i
    /\ seen_code_ids' = seen_code_ids \cup {w[i].code_id}
    /\ w' = [w EXCEPT ![i].pc = "synth"]
    /\ UNCHANGED <<styleVars, executed, batches, lost, pipeline, header, pc,
                   rowsLeft, nread, batch_rows, batch_num, lock, results,
                   disk, zips, error_log, db, db_errors, request, before,
                   inserts, zipCalls>>

\* seen_code_ids.add(code_id) and the exit of the with block
Add(i) ==
    /\ pc \in {"map", "unwind"}
    /\ w[i].pc = "add"
    /\ lock = i
    /\ seen_code_ids' = seen_code_ids \cup {w[i].code_id}
    /\ lock' = 0
    /\ w' = [w EXCEPT ![i].pc = "synth"]
    /\ UNCHANGED <<styleVars, executed, batches, lost, pipeline, header, pc,
                   rowsLeft, nread, batch_rows, batch_num, results, disk,
                   zips, error_log, db, db_errors, request, before, inserts,
                   zipCalls>>

\* create_qr_image: writes <code_id>.png, or raises before the file exists
\* (encoder or I/O error), which the except block of process_row takes.
Synth(i) ==
    /\ pc \in {"map", "unwind"}
    /\ w[i].pc = "synth"
    /\ \/ /\ disk' = disk \cup {w[i].code_id}
          /\ w' = [w EXCEPT ![i].pc = "rec"]
          /\ UNCHANGED <<error_log, lost>>
       \/ /\ Except(i)
          /\ lost' = lost \cup {w[i].code_id}
          /\ UNCHANGED disk
    /\ UNCHANGED <<styleVars, executed, batches, pipeline, header, pc,
                   rowsLeft, nread, batch_rows, batch_num, lock,
                   seen_code_ids, results, zips, db, db_errors, request,
                   before, inserts, zipCalls>>

\* ---------------------------------------------------- the main thread ---
\* variant: the run-summary row is requested before the header is validated
SetupRequestFirst ==
    /\ pc = "setup"
    /\ IF pipeline = "main"
       THEN \/ /\ request' = TRUE
               /\ pc' = IF wallid_idx = 0 THEN "aborted" ELSE "fill"
            \/ pc' = "aborted" /\ UNCHANGED request
       ELSE /\ pc' = IF wallid_idx = 0 \/ posid_idx = 0
                     THEN "aborted" ELSE "fill"
            /\ UNCHANGED request
    /\ UNCHANGED <<styleVars, executed, batches, lost, pipeline, header,
                   rowsLeft, nread, batch_rows, batch_num, w, lock,
                   seen_code_ids, results, disk, zips, error_log, db,
                   db_errors, before, inserts, zipCalls>>

\* header scan of seed_qr_codes_from_csv and, in main.py, create_qr_request
Setup ==
    /\ pc = "setup"
    /\ IF wallid_idx = 0 \/ (pipeline = "qr_images" /\ posid_idx = 0)
       THEN pc' = "aborted" /\ UNCHANGED request
       ELSE IF pipeline = "main"
            THEN \/ request' = TRUE /\ pc' = "fill"
                 \/ pc' = "aborted" /\ UNCHANGED request
            ELSE pc' = "fill" /\ UNCHANGED request
    /\ UNCHANGED <<styleVars, executed, batches, lost, pipeline, header,
                   rowsLeft, nread, batch_rows, batch_num, w, lock,
                   seen_code_ids, results, disk, zips, error_log, db,
                   db_errors, before, inserts, zipCalls>>

\* the rows handed to one process_batch call, as row numbers of the file,
\* when the loop has taken n rows
BatchSpan(rows, n) == [first |-> n - Len(rows) + 1, last |-> n]

\* entry of process_batch: executor.map submits one call per row
Dispatched(rows) == [i \in 1..Len(rows) |-> NoFrame]

\* one turn of "for row in rows": append, and dispatch a full batch.  The
\* content of a row is drawn when the loop reaches it; rows are read once
\* and never changed, so this is the file list(reader) returned.
ReadRow ==
    /\ pc = "fill"
    /\ rowsLeft > 0
    /\ \E row \in RowChoices(nread + 1) :
         /\ batch_rows' = Append(batch_rows, row)
         /\ IF Len(batch_rows) + 1 >= BATCH_SIZE
            THEN /\ pc' = "map"
                 /\ w' = Dispatched(batch_rows')
                 /\ before' = Len(results)
                 /\ batches' = Append(batches,
                                      BatchSpan(batch_rows', nread + 1))
            ELSE UNCHANGED <<pc, w, before, batches>>
    /\ executed' = Append(executed, 0)
    /\ rowsLeft' = rowsLeft - 1
    /\ nread' = nread + 1
    /\ UNCHANGED <<styleVars, lost, pipeline, header, batch_num, lock,
                   seen_code_ids, results, disk, zips, error_log, db,
                   db_errors, request, inserts, zipCalls>>

\* after the loop: "if batch_rows: process_batch(...)"
LastBatch ==
    /\ pc = "fill"
    /\ rowsLeft = 0
    /\ batch_rows # <<>>
    /\ pc' = "map"
    /\ w' = Dispatched(batch_rows)
    /\ before' = Len(results)
    /\ batches' = Append(batches, BatchSpan(batch_rows, nread))
    /\ UNCHANGED <<styleVars, executed, lost, pipeline, header, rowsLeft,
                   nread, batch_rows, batch_num, lock, seen_code_ids, results,
                   disk, zips, error_log, db, db_errors, request, inserts,
                   zipCalls>>

\* [r for r in processed if r], in the order of the rows
RECURSIVE Processed(_)
Processed(n) ==
    IF n = 0 THEN <<>>
    ELSE IF w[n].pc = "rec"
         THEN Append(Processed(n - 1),
                     [code_id |-> w[n].code_id, ext_id |-> w[n].ext_id])
         ELSE Processed(n - 1)

\* variant: no rollback, the rows executed before the failure stay
InsertBatchNoRollback(rows, records, ok) ==
    IF ok THEN rows \o records
    ELSE rows \o SubSeq(records, 1, Len(records) - 1)

\* insert_batch_records: every record and one commit, or rollback
InsertBatch(rows, records, ok) == IF ok THEN rows \o records ELSE rows

\* list(executor.map(...)) has every result; insert_batch_records (main.py)
\* and results.extend(processed)
Collect ==
    /\ pc = "map"
    /\ \A i \in Idx : Returned(i)
    /\ IF pipeline = "main"
       THEN /\ \E ok \in BOOLEAN :
                 /\ db' = InsertBatch(db, Processed(Len(batch_rows)), ok)
                 /\ db_errors' = IF ok THEN db_errors ELSE db_errors + 1
            /\ inserts' = inserts + 1
       ELSE UNCHANGED <<db, db_errors, inserts>>
    /\ results' = results \o Processed(Len(batch_rows))
    /\ pc' = "check"
    /\ UNCHANGED <<styleVars, executed, batches, lost, pipeline, header,
                   rowsLeft, nread, batch_rows, batch_num, w, lock,
                   seen_code_ids, disk, zips, error_log, request, before,
                   zipCalls>>

\* list(executor.map(...)) reaches a call that raised: the iterator cancels
\* the calls no thread has taken yet and the exception leaves process_batch
Raise ==
    /\ pc = "map"
    /\ \E k \in Idx : /\ w[k].pc = "raised"
                      /\ \A j \in 1..(k - 1) : Returned(j)
    /\ w' = [i \in Idx |-> IF w[i].pc = "queued"
                           THEN [w[i] EXCEPT !.pc = "cancelled"] ELSE w[i]]
    /\ pc' = "unwind"
    /\ UNCHANGED <<styleVars, executed, batches, lost, pipeline, header,
                   rowsLeft, nread, batch_rows, batch_num, lock,
                   seen_code_ids, results, disk, zips, error_log, db,
                   db_errors, request, before, inserts, zipCalls>>

\* exit of "with ThreadPoolExecutor": shutdown waits for the running calls,
\* then the exception ends the program
Unwind ==
    /\ pc = "unwind"
    /\ \A i \in Idx : Finished(i)
    /\ pc' = "aborted"
    /\ UNCHANGED <<styleVars, executed, batches, lost, pipeline, header,
                   rowsLeft, nread, batch_rows, batch_num, w, lock,
                   seen_code_ids, results, disk, zips, error_log, db,
                   db_errors, request, before, inserts, zipCalls>>

\* ---------------------------------------------------- zip_and_cleanup ---
\* variant: every record of the slice is written, its file existing or not
ZipEntriesUnchecked(slice, files) == CodesOf(slice)

\* the entries written: the records of the slice whose file exists
ZipEntries(slice, files) == CodesOf(slice) \cap files

\* ZipFile(zip_name, "w") creates or truncates qr_batch_<index>.zip
WriteZip(archives, index, entries) ==
    [k \in DOMAIN archives \cup {index} |->
        IF k = index THEN entries ELSE archives[k]]

ZipAndCleanup(index, slice, final) ==
    /\ zips' = WriteZip(zips, index, ZipEntries(slice, disk))
    /\ disk' = disk \ CodesOf(slice)
    /\ zipCalls' = Append(zipCalls,
                          [index |-> index, slice |-> slice, final |-> final])

\* "if len(results) % 1000 == 0"
ShouldArchive(n) == n % Threshold = 0

\* "zip_index = len(results) // 1000"
ZipIndex(n) == n \div Threshold

\* variant: the remainder flush reusing the index of the last full archive
FlushIndexSame(n) == n \div Threshold

\* "zip_index = (len(results) // 1000) + 1" of the remainder flush
FlushIndex(n) == (n \div Threshold) + 1

\* the rest of process_batch, and the return to the loop
ArchiveCheck ==
    /\ pc = "check"
    /\ IF ShouldArchive(Len(results))
       THEN ZipAndCleanup(ZipIndex(Len(results)),
                          LastN(results, Threshold), FALSE)
       ELSE UNCHANGED <<zips, disk, zipCalls>>
    /\ pc' = "fill"
    /\ batch_rows' = <<>>
    /\ batch_num' = batch_num + 1
    /\ w' = <<>>
    /\ UNCHANGED <<styleVars, executed, batches, lost, pipeline, header,
                   rowsLeft, nread, lock, seen_code_ids, results, error_log,
                   db, db_errors, request, before, inserts>>

\* end of seed_qr_codes_from_csv; qr_images.py zips the remainder
Finish ==
    /\ pc = "fill"
    /\ rowsLeft = 0
    /\ batch_rows = <<>>
    /\ IF pipeline = "qr_images" /\ Len(results) % Threshold > 0
       THEN ZipAndCleanup(FlushIndex(Len(results)),
                          LastN(results, Len(results) % Threshold), TRUE)
       ELSE UNCHANGED <<zips, disk, zipCalls>>
    /\ pc' = "done"
    /\ UNCHANGED <<styleVars, executed, batches, lost, pipeline, header,
                   rowsLeft, nread, batch_rows, batch_num, w, lock,
                   seen_code_ids, results, error_log, db, db_errors, request,
                   before, inserts>>

\* --------------------------------------------------- the specification --
Init ==
    /\ pipeline \in {"main", "qr_images"}
    /\ header \in Headers(pipeline)
    /\ pc = "setup"
    /\ rowsLeft \in 0..MaxRows
    /\ nread = 0
    /\ batch_rows = <<>>
    /\ batch_num = 1
    /\ w = <<>>
    /\ lock = 0
    /\ seen_code_ids = {}
    /\ results = <<>>
    /\ disk = {}
    /\ zips = <<>>
    /\ error_log = 0
    /\ db = <<>>
    /\ db_errors = 0
    /\ request = FALSE
    /\ before = 0
    /\ inserts = 0
    /\ zipCalls = <<>>
    /\ executed = <<>>
    /\ batches = <<>>
    /\ lost = {}
    /\ style_pc = "off"
    /\ matrix_size = 0
    /\ fill_k = 0
    /\ fills = <<>>

Worker == \E i \in Idx : Begin(i) \/ Acquire(i) \/ Add(i) \/ Synth(i)

Next ==
    \/ Setup
    \/ ReadRow
    \/ LastBatch
    \/ Worker
    \/ Collect
    \/ Raise
    \/ Unwind
    \/ ArchiveCheck
    \/ Finish

Spec == Init /\ [][Next]_vars

\* The program under its scheduler: a run does not stop while a thread has a
\* step to take (pool threads and the main thread are ordinary OS threads).
\* Progress is checked on the files of at most MaxLiveRows rows.
InitLive == Init /\ rowsLeft <= MaxLiveRows

SpecLive == InitLive /\ [][Next]_vars /\ WF_vars(Next)

\* The same program on the schedules in which no two process_row calls
\* overlap: a call is taken from the queue only while no other call runs.
SeqWorker ==
    \E i \in Idx : \/ Begin(i) /\ \A j \in Idx : ~Running(j)
                   \/ Acquire(i)
                   \/ Add(i)
                   \/ Synth(i)

NextSeq ==
    \/ Setup
    \/ ReadRow
    \/ LastBatch
    \/ SeqWorker
    \/ Collect
    \/ Raise
    \/ Unwind
    \/ ArchiveCheck
    \/ Finish

SpecSeq == Init /\ [][NextSeq]_vars


\* ------------------------------------------- stylize_finder_patterns ----
is_finder_pattern_module(x, y) ==
    (x = 0 \/ x = 6 \/ y = 0 \/ y = 6) \/ (2 <= x /\ x <= 4 /\ 2 <= y /\ y <= 4)

\* variant: the eyeball one module too wide
is_eyeball_wide(x, y) == 1 <= x /\ x <= 5 /\ 1 <= y /\ y <= 5

is_eyeball(x, y) == 2 <= x /\ x <= 4 /\ 2 <= y /\ y <= 4

\* the conditional expression of replace_finder_pattern
fill_color(col, row) ==
    IF is_eyeball(col, row) THEN EYEBALL_COLOR
    ELSE IF is_finder_pattern_module(col, row) THEN FOREGROUND_COLOR
    ELSE BACKGROUND_COLOR

\* module_size = width // (qr_matrix_size + 2 * border)
module_size(width, size, border) == width \div (size + 2 * border)

\* the dict `positions`, in insertion order: top_left, top_right, bottom_left
positions(width, size, border) ==
    LET ms == module_size(width, size, border)
        offset == border * ms
    IN  << <<offset, offset>>,
           <<width - offset - 7 * ms, offset>>,
           <<offset, width - offset - 7 * ms>> >>

\* make(fit=True) keeps QR_VERSION or grows the symbol: 17 + 4 * version
MatrixSizes == {17 + 4 * v : v \in QR_VERSION..MaxVersion}

\* the k-th fill_rect call (k from 0): corner k \div 49, row, then col
FillCall(k) ==
    LET width == FIXED_SIZE[1]
        ms == module_size(width, matrix_size, QR_BORDER)
        pos == positions(width, matrix_size, QR_BORDER)[(k \div 49) + 1]
        row == (k % 49) \div 7
        col == k % 7
    IN  [x |-> pos[1] + col * ms, y |-> pos[2] + row * ms,
         width |-> ms, height |-> ms, color |-> fill_color(col, row)]

\* one turn of the inner loop of replace_finder_pattern
StyleFill ==
    /\ style_pc = "paint"
    /\ fill_k < 3 * 49
    /\ fills' = Append(fills, FillCall(fill_k))
    /\ fill_k' = fill_k + 1
    /\ UNCHANGED <<pipeVars, style_pc, matrix_size>>

\* "return img"
StyleReturn ==
    /\ style_pc = "paint"
    /\ fill_k = 3 * 49
    /\ style_pc' = "styled"
    /\ UNCHANGED <<pipeVars, matrix_size, fill_k, fills>>

InitStyle ==
    /\ pipeline = "main"
    /\ header = <<"wallid", "posid">>
    /\ pc = "setup"
    /\ rowsLeft = 0
    /\ nread = 0
    /\ batch_rows = <<>>
    /\ batch_num = 1
    /\ w = <<>>
    /\ lock = 0
    /\ seen_code_ids = {}
    /\ results = <<>>
    /\ disk = {}
    /\ zips = <<>>
    /\ error_log = 0
    /\ db = <<>>
    /\ db_errors = 0
    /\ request = FALSE
    /\ before = 0
    /\ inserts = 0
    /\ zipCalls = <<>>
    /\ executed = <<>>
    /\ batches = <<>>
    /\ lost = {}
    /\ style_pc = "paint"
    /\ matrix_size \in MatrixSizes
    /\ fill_k = 0
    /\ fills = <<>>

NextStyle == StyleFill \/ StyleReturn

SpecStyle == InitStyle /\ [][NextStyle]_vars

\* fill_rect draws [x, y, x + width - 1, y + height - 1], ends included
Covers(f, px, py) ==
    /\ f.x <= px /\ px <= f.x + f.width - 1
    /\ f.y <= py /\ py <= f.y + f.height - 1

\* colour of a pixel after the calls made so far; "raw" where the encoder's
\* rendering is untouched
PixelColor(px, py) ==
    LET hits == {k \in 1..Len(fills) : Covers(fills[k], px, py)}
    IN  IF hits = {} THEN "raw"
        ELSE fills[CHOOSE k \in hits : \A j \in hits : j <= k].color


\* ================================================================ claims =
NoDuplicates(recs) ==
    \A i, j \in 1..Len(recs) : i # j => recs[i].code_id # recs[j].code_id

\* C1: no two records of the cumulative results list share a code_id, for
\* every interleaving of the workers of a batch.  The code tests membership
\* outside the lock, so two rows with one code_id can both pass the test.
C1_UniqueCodeIds == NoDuplicates(results)

\* a step in which the call for row i runs its try block up to the test
BeginStep(i) ==
    /\ pc = "map" /\ pc' = "map"
    /\ w[i].pc = "queued" /\ w'[i].pc # "queued"
    /\ ~ExtractRaises(batch_rows[i])

HasExternalId(row) == Strip(row[wallid_idx]) # <<>>

\* what the call for row i does at the test, as C2 states it
DedupContract(i) ==
    /\ (w'[i].pc = "lock") <=> (w'[i].code_id \notin seen_code_ids)
    /\ w'[i].pc # "lock" =>
          /\ w'[i].pc = "none"
          /\ seen_code_ids' = seen_code_ids
          /\ disk' = disk

PassesEmptinessTest(row) ==
    IF pipeline = "main" THEN HasExternalId(row)
    ELSE Strip(row[posid_idx]) # <<>>

\* records produced so far, with those of the calls that already returned one
Produced ==
    results \o IF pc \in {"map", "unwind"} THEN Processed(Len(batch_rows))
               ELSE <<>>

Crossed(a, b) == \E k \in 1..MaxRows : a < k * Threshold /\ k * Threshold <= b

\* C3: after a batch's results are appended, zip_and_cleanup is invoked iff
\* len(results) crossed a multiple of the threshold during the batch, and
\* then on exactly the most recent threshold-many records.  The code tests
\* len(results) % 1000 == 0 instead.
C3_ArchiveTrigger ==
    [][pc = "check" /\ pc' # "check" =>
         LET invoked == zipCalls' # zipCalls
             call == zipCalls'[Len(zipCalls')]
             n == Len(results)
         IN  /\ invoked <=> Crossed(before, n)
             /\ invoked => /\ Len(call.slice) = Threshold
                           /\ call.slice = SubSeq(results, n - Threshold + 1, n)
      ]_vars

\* every row read so far produced a record and the code ids are distinct
AllAccepted == Len(results) = nread /\ NoDuplicates(results)

\* C4: after a complete run over exactly threshold-many valid rows with
\* distinct code ids and no synthesis failure, exactly one archive exists,
\* it holds exactly those images, and none of them is left in the folder.
C4_ArchiveCorrectness ==
    (pc = "done" /\ nread = Threshold /\ AllAccepted) =>
        /\ DOMAIN zips = {1}
        /\ zips[1] = CodesOf(results)
        /\ Cardinality(zips[1]) = Threshold
        /\ disk \cap CodesOf(results) = {}

C4_Witness ==
    /\ pc = "done" /\ nread = Threshold /\ AllAccepted
    /\ pipeline = "main"
    /\ Len(db) = Threshold

\* the images of the k-th threshold-sized block of results
Block(k) ==
    LET hi == IF k * Threshold <= Len(results) THEN k * Threshold
              ELSE Len(results)
    IN  CodesOf(SubSeq(results, (k - 1) * Threshold + 1, hi))

FinalCalls == {k \in 1..Len(zipCalls) : zipCalls[k].final}

\* C5: for a complete run of N valid, unique, successfully synthesized rows,
\* qr_images.py leaves floor(N/T) full archives and, when N mod T > 0, one
\* final archive of the N mod T last images, written by one flush after the
\* last batch; main.py leaves floor(N/T) full archives and the last N mod T
\* images on disk.
C5_Remainder ==
    (pc = "done" /\ AllAccepted) =>
        LET n == Len(results)
            full == n \div Threshold
            rest == n % Threshold
        IN  IF pipeline = "qr_images"
            THEN /\ DOMAIN zips = 1..(full + IF rest > 0 THEN 1 ELSE 0)
                 /\ \A k \in DOMAIN zips : zips[k] = Block(k)
                 /\ Len(zipCalls) = full + IF rest > 0 THEN 1 ELSE 0
                 /\ FinalCalls = IF rest > 0 THEN {Len(zipCalls)} ELSE {}
                 /\ disk = {}
            ELSE /\ DOMAIN zips = 1..full
                 /\ \A k \in DOMAIN zips : zips[k] = Block(k)
                 /\ Len(zipCalls) = full
                 /\ disk = CodesOf(SubSeq(results, full * Threshold + 1, n))

\* one full archive and a remainder archive of half a threshold
C5_Witness ==
    /\ pc = "done" /\ AllAccepted
    /\ pipeline = "qr_images"
    /\ Len(results) = Threshold + Threshold \div 2
    /\ DOMAIN zips = 1..2
    /\ Cardinality(zips[1]) = Threshold
    /\ Cardinality(zips[2]) = Threshold \div 2

\* C6: for any row on which process_row raises, it returns None after one
\* line in the error log and no exception escapes to process_batch.  The
\* except block raises again on a row too short for its columns.
C6_RowFailuresNeverFatal == \A i \in DOMAIN w : w[i].pc # "raised"

\* C7: a row whose external id is empty after trimming is dropped by
\* process_row without side effects, in both pipelines.  qr_images.py pads
\* the external id and tests the code id instead.
C7_EmptyExternalIdDropped ==
    \A i \in DOMAIN w :
        (~ExtractRaises(batch_rows[i]) /\ ~HasExternalId(batch_rows[i]))
            => w[i].pc \in {"queued", "none", "cancelled"}

SeenBefore == seen_code_ids \ {w[i].code_id : i \in {j \in Idx : w[j].pc = "rec"}}

\* C9: for a batch without synthesis or persistence error, the records
\* persisted are the records appended to results, as many as the batch has
\* rows with a non-empty external id and a code_id not claimed before.
\* Two rows of a batch with one code_id can both be accepted (see C1).
C9_BatchCompleteness ==
    [][(pipeline = "main" /\ pc = "map" /\ pc' = "check"
           /\ (\A i \in Idx : w[i].pc # "failed")
           /\ db_errors' = db_errors) =>
         LET recs == Processed(Len(batch_rows))
             fresh == {w[i].code_id :
                         i \in {j \in Idx : HasExternalId(batch_rows[j])}}
                      \ SeenBefore
         IN  /\ db' = db \o recs
             /\ results' = results \o recs
             /\ Len(recs) = Cardinality(fresh)
      ]_vars

\* the colour C10 gives the local position (col, row) of a finder pattern
TopologyColor(col, row) ==
    IF col \in 2..4 /\ row \in 2..4 THEN EYEBALL_COLOR
    ELSE IF col \in {0, 6} \/ row \in {0, 6} THEN FOREGROUND_COLOR
    ELSE BACKGROUND_COLOR

\* C10: after styling, each of the 49 modules of the top-left, top-right and
\* bottom-left corner has the accent colour iff both local coordinates are
\* in 2..4, the foreground colour iff a coordinate is 0 or 6 and the
\* background colour otherwise; the fourth corner is not touched.
C10_FinderTopology ==
    style_pc = "styled" =>
        LET width == FIXED_SIZE[1]
            ms == module_size(width, matrix_size, QR_BORDER)
            pos == positions(width, matrix_size, QR_BORDER)
        IN  /\ Len(fills) = 3 * 49
            /\ \A c \in 1..3 : \A col \in 0..6 : \A row \in 0..6 :
                 \A dx \in {0, ms - 1} : \A dy \in {0, ms - 1} :
                    PixelColor(pos[c][1] + col * ms + dx,
                               pos[c][2] + row * ms + dy)
                       = TopologyColor(col, row)
            /\ \A d \in {1, 7 * ms} :
                 PixelColor(width - d, width - d) = "raw"

C10_Witness == style_pc = "styled" /\ Len(fills) = 3 * 49

\* ------------------------------------------------------------------ C11 ---
\* the header of the input file has no column of the given name
Lacks(name) == \A i \in 1..Len(header) : header[i] # name

\* the header lacks a column the pipeline requires
MissingRequiredColumn ==
    IF pipeline = "main"
    THEN Lacks("wallid")
    ELSE Lacks("code_id") \/ Lacks("ext_id")

\* C11: when the header lacks a required column the run never leaves its
\* setup other than by raising, and nothing has been done at any point of
\* it: no row was taken, no process_row call was made, seen_code_ids and
\* results are empty, no image and no archive was written, and no
\* run-summary row and no per-record row was inserted.
C11_SetupErrorsFatal ==
    MissingRequiredColumn =>
        /\ pc \in {"setup", "aborted"}
        /\ nread = 0 /\ batch_rows = <<>> /\ batches = <<>>
        /\ w = <<>> /\ executed = <<>>
        /\ seen_code_ids = {} /\ results = <<>>
        /\ disk = {} /\ zips = <<>> /\ zipCalls = <<>>
        /\ request = FALSE /\ db = <<>> /\ inserts = 0

\* a file with rows and without a required column, after the run has raised
C11_Witness ==
    /\ MissingRequiredColumn
    /\ pc = "aborted"
    /\ rowsLeft = MaxRows

\* ------------------------------------------------------------------ C12 ---
\* the dispatched batches are consecutive runs of the input rows, in input
\* order, none empty, each of BATCH_SIZE rows except possibly the last
ConsecutiveBatches ==
    \A k \in 1..Len(batches) :
        LET size == batches[k].last - batches[k].first + 1 IN
        /\ batches[k].first = IF k = 1 THEN 1 ELSE batches[k - 1].last + 1
        /\ size \in 1..BATCH_SIZE
        /\ k < Len(batches) => size = BATCH_SIZE

\* the run has ended after its setup succeeded
RunEnded == pc = "done" \/ (pc = "aborted" /\ batches # <<>>)

\* every row of the file was handed to a batch and to one process_row call
EveryRowOnce ==
    /\ rowsLeft = 0
    /\ batches # <<>> => batches[Len(batches)].last = nread
    /\ \A n \in 1..nread : executed[n] = 1

\* C12: the rows are dispatched in input order as consecutive batches, each
\* of exactly BATCH_SIZE rows except possibly the last, which has between 1
\* and BATCH_SIZE rows; no batch is empty; and when the run has ended every
\* input row belongs to exactly one batch and process_row was executed
\* exactly once for it.
C12_BatchPartition ==
    /\ ConsecutiveBatches
    /\ \A n \in 1..Len(executed) : executed[n] <= 1
    /\ RunEnded => EveryRowOnce

\* the part of C12 that holds on every run: the partition, at most one call
\* per row, and exactly one call per row when the run reaches its end
C12_PartitionOfCompletedRuns ==
    /\ ConsecutiveBatches
    /\ \A n \in 1..Len(executed) : executed[n] <= 1
    /\ pc = "done" => EveryRowOnce

\* ------------------------------------------------------------------ C13 ---
\* a process_row call of the dispatched batch is in progress on a pool thread
InProgress(i) == w[i].pc \in {"lock", "add", "synth"}

\* the main thread persists, appends to results or runs zip_and_cleanup
MainThreadStep ==
    \/ results' # results
    \/ inserts' # inserts
    \/ db' # db
    \/ zipCalls' # zipCalls

\* a process_row call begins for row n of the file
Begins(n) == executed'[n] > executed[n]

\* C13: a process_row call of a batch starts only when every row of the
\* earlier batches has had its call, and the persistence, the append to
\* results and the archive check of every earlier batch are over; results is
\* appended to, and read by zip_and_cleanup, only while no process_row call
\* is in progress on a pool thread.
C13_BatchBarrier ==
    [][ /\ \A n \in 1..Len(executed) :
             Begins(n) =>
                 /\ pc = "map"
                 /\ Len(batches) = batch_num
                 /\ n \in batches[batch_num].first..batches[batch_num].last
                 /\ \A m \in 1..(batches[batch_num].first - 1) :
                        executed[m] = 1
                 /\ pipeline = "main" => inserts = batch_num - 1
        /\ MainThreadStep =>
             /\ \A i \in DOMAIN w : ~InProgress(i) /\ w[i].pc # "queued"
             /\ \A i \in DOMAIN w' : ~InProgress(i)'
        /\ pc' \in {"check", "fill", "done"} =>
             \A i \in DOMAIN w' : ~InProgress(i)'
      ]_vars

\* a call of the second batch is in progress after the first batch was
\* appended to results
C13_Witness ==
    /\ batch_num = 2
    /\ results # <<>>
    /\ \E i \in DOMAIN w : InProgress(i)

\* ------------------------------------------------------------------ C14 ---
\* the call of row i runs its membership test in this step and reads code c
Tests(i, c) ==
    /\ w[i].pc = "queued"
    /\ w'[i].pc \in {"none", "lock"}
    /\ w'[i].code_id = c

\* C14: seen_code_ids only grows; a code id claimed by a call whose image
\* synthesis failed stays in it for the rest of the run; a call that tests
\* such a code id afterwards is rejected; the failed call contributes no
\* record, and that code id never appears in results.
C14_NoRollback ==
    [][ /\ seen_code_ids \subseteq seen_code_ids'
        /\ lost' \subseteq seen_code_ids'
        /\ \A i \in DOMAIN w : \A c \in lost :
               (DOMAIN w' = DOMAIN w /\ Tests(i, c)) => w'[i].pc = "none"
        /\ \A c \in lost' : c \notin CodesOf(results')
      ]_vars

\* ------------------------------------------------------------------ C15 ---
\* the call of row i waits at "with lock:" / is inside the with block
Waits(i) == i \in DOMAIN w /\ w[i].pc = "lock"
Holds(i) == lock = i

\* what the lock protects, at every moment: the holder is a call about to
\* run seen_code_ids.add and nothing else; a call that synthesises an image
\* or runs its except block, and the main thread while it persists, appends
\* or archives, hold no lock; there is at most one holder.
LockScope ==
    /\ lock \in {0} \cup DOMAIN w
    /\ \A i \in DOMAIN w : Holds(i) <=> w[i].pc = "add"
    /\ Cardinality({i \in DOMAIN w : w[i].pc = "add"}) <= 1
    /\ pc \in {"setup", "fill", "check", "done", "aborted"} => lock = 0

\* C15: the lock is held by a call only while it inserts into
\* seen_code_ids, never during create_qr_image, the error-log write,
\* insert_batch_records or zip_and_cleanup; at most one call holds it; every
\* acquisition is followed by a release; no call waits for it forever.
C15_LockScope ==
    /\ []LockScope
    /\ [][ (disk' # disk \/ error_log' # error_log \/ db' # db
               \/ inserts' # inserts \/ zips' # zips \/ zipCalls' # zipCalls)
           => lock = 0 \/ w'[lock] = w[lock] ]_vars
    /\ \A i \in 1..BATCH_SIZE : Holds(i) ~> ~Holds(i)
    /\ \A i \in 1..BATCH_SIZE : Waits(i) ~> ~Waits(i)

\* one call holds the lock while another waits for it
C15_Witness ==
    \E i, j \in DOMAIN w : Holds(i) /\ w[i].pc = "add" /\ Waits(j)

\* ------------------------------------------------------------------ C16 ---
\* this step is one zip_and_cleanup call
ZipStep == Len(zipCalls') = Len(zipCalls) + 1

\* C16: one zip_and_cleanup call writes to its archive exactly the images
\* named by the records of the slice that exist on disk when it is made,
\* deletes exactly those (none that it did not add), returns normally when
\* an image of the slice is missing, leaves every other image and every
\* other archive as it was, and leaves no image of the slice on disk.
C16_ArchiveEffect ==
    [][ ZipStep =>
          LET call == zipCalls'[Len(zipCalls')]
              named == CodesOf(call.slice)
          IN  /\ zips'[call.index] = named \cap disk
              /\ disk \ disk' = named \cap disk
              /\ disk \ disk' \subseteq zips'[call.index]
              /\ disk' = disk \ named
              /\ disk' \cap named = {}
              /\ \A k \in DOMAIN zips \ {call.index} :
                     k \in DOMAIN zips' /\ zips'[k] = zips[k]
              /\ pc' \in {"fill", "done"}
      ]_vars

\* a call archived the images of its slice and left on disk an image that
\* belongs to no record of the slice
C16_Witness ==
    /\ zipCalls # <<>>
    /\ LET call == zipCalls[Len(zipCalls)] IN
          /\ call.slice # <<>>
          /\ zips[call.index] = CodesOf(call.slice)
          /\ disk # {}
          /\ disk \cap CodesOf(call.slice) = {}

\* ------------------------------------------------------------------ C17 ---
\* C17: for the bitmap width and every grid size the encoder returns,
\* module_size * (grid_size + 2 * border) equals the width (the division is
\* exact), the top-right and bottom-left anchors are the grid-aligned
\* position (grid_size + border - 7) * module_size, and every rectangle
\* drawn lies inside the bitmap.
C17_ExactModuleSize ==
    style_pc = "styled" =>
        LET width == FIXED_SIZE[1]
            ms == module_size(width, matrix_size, QR_BORDER)
            pos == positions(width, matrix_size, QR_BORDER)
            aligned == (matrix_size + QR_BORDER - 7) * ms
        IN  /\ ms * (matrix_size + 2 * QR_BORDER) = width
            /\ pos[2][1] = aligned
            /\ pos[3][2] = aligned
            /\ \A k \in 1..Len(fills) :
                 /\ 0 <= fills[k].x /\ fills[k].x + fills[k].width <= width
                 /\ 0 <= fills[k].y /\ fills[k].y + fills[k].height <= width

\* ------------------------------------------------------------------ C18 ---
\* the image of a record is on disk or is an entry of some archive
Kept(code_id) ==
    \/ code_id \in disk
    \/ \E k \in DOMAIN zips : code_id \in zips[k]

\* C18: in every state of a run the image of every record of results is on
\* disk or in an archive; an image that an archive has received, and that
\* zip_and_cleanup has deleted from disk, is still in that archive after
\* every later step.
C18_NoImageLost ==
    [][ /\ \A k \in 1..Len(results) : Kept(results[k].code_id)
        /\ \A k \in DOMAIN zips : \A c \in zips[k] \ disk :
               k \in DOMAIN zips' /\ c \in zips'[k]
      ]_vars

\* ------------------------------------------------------------------ C19 ---
\* the slices of the zip_and_cleanup calls made so far, one after the other
RECURSIVE Slices(_)
Slices(n) ==
    IF n = 0 THEN <<>> ELSE Slices(n - 1) \o zipCalls[n].slice

\* C19: when the remainder-flush pipeline has finished, the slices passed to
\* zip_and_cleanup, in call order, are consecutive blocks of results that
\* cover it without overlap (their concatenation is results itself), and no
\* generated image is left on disk.
C19_ArchiveCoverage ==
    (pipeline = "qr_images" /\ pc = "done") =>
        /\ Slices(Len(zipCalls)) = results
        /\ disk = {}

\* ------------------------------------------------------------------ C20 ---
\* C20: the indices of the successive zip_and_cleanup calls are 1, 2, 3, ...:
\* strictly increasing, never 0, none used twice.
C20_SequentialArchiveNames ==
    \A k \in 1..Len(zipCalls) : zipCalls[k].index = k

====
